---------------------------- MODULE Spec2Model ----------------------------
(***************************************************************************)
(* HashVault: the metadata route (src/src/app/api/upload/route.ts: POST,   *)
(* GET, DELETE, ensureDbConnection, fileListCache) and the upload proxy    *)
(* (src/unnamed/part_000: POST).                                           *)
(*                                                                         *)
(* JavaScript runs one handler at a time and switches handlers only at an  *)
(* await.  Every action below is one such uninterrupted stretch: the       *)
(* execution of the awaited operation (the database executes one query,    *)
(* connectToDatabase settles) followed by the handler's code up to its     *)
(* next await or its response.  Where the code after the await touches     *)
(* shared memory (fileListCache, dbConnectionPromise) the awaited          *)
(* operation and the continuation are two actions, since other handlers    *)
(* run in between.                                                         *)
(*                                                                         *)
(* Variables whose comment says "history" are not program state: they      *)
(* record what happened so that the claims can be stated.  No action's     *)
(* guard or program-state update reads them.                               *)
(***************************************************************************)
EXTENDS Integers, Sequences, FiniteSets, TLC

\* ------------------------------------------------------------------ bounds
\* Handlers that may be in flight at once.
NumSlots == 2
\* Requests served in one behaviour.
MaxRequests == 3
\* connectToDatabase calls in one behaviour.
MaxAttempts == 3
\* Clock advances in one behaviour.
MaxTicks == 2

\* ------------------------------------------------------- program constants
\* route.ts:15   const CACHE_TTL = 30 * 1000
CACHE_TTL == 30 * 1000

Slots == 1..NumSlots
Wallets == {"w1", "w2"}
Cids == {"c1"}
\* Request bodies' size field as the characters of the string; <<>> is an
\* absent (or empty, equally falsy) field.
SizeInputs == { <<>>, <<"1", "2">>, <<"x">> }
\* How far the k-th clock advance moves Date.now(): alternately to 1 ms short
\* of a TTL later and 1 ms further, so that an entry is seen at the ages
\* 0, 1, 29999 and 30000 ms.
TickStep(k) == IF k % 2 = 0 THEN CACHE_TTL - 1 ELSE 1

\* ---------------------------------------------------------------- parseInt
Digits == {"0", "1", "2", "3", "4", "5", "6", "7", "8", "9"}

DigitVal(c) ==
    CASE c = "0" -> 0 [] c = "1" -> 1 [] c = "2" -> 2 [] c = "3" -> 3
      [] c = "4" -> 4 [] c = "5" -> 5 [] c = "6" -> 6 [] c = "7" -> 7
      [] c = "8" -> 8 [] c = "9" -> 9

\* s without its leading white space.
RECURSIVE TrimStart(_)
TrimStart(s) ==
    IF s # <<>> /\ Head(s) = " " THEN TrimStart(Tail(s)) ELSE s

\* The value of the longest prefix of decimal digits of s, acc being the value
\* of the digits already read.
RECURSIVE DigitsValue(_, _)
DigitsValue(s, acc) ==
    IF s # <<>> /\ Head(s) \in Digits
    THEN DigitsValue(Tail(s), acc * 10 + DigitVal(Head(s)))
    ELSE acc

\* parseInt(s, 10): optional white space, optional sign, the longest run of
\* digits; NaN (nan = TRUE) when there is no digit.
ParseInt(s) ==
    LET t == TrimStart(s)
        neg == t # <<>> /\ Head(t) = "-"
        signed == t # <<>> /\ Head(t) \in {"-", "+"}
        d == IF signed THEN Tail(t) ELSE t
    IN  IF d # <<>> /\ Head(d) \in Digits
        THEN [nan |-> FALSE,
              val |-> IF neg THEN 0 - DigitsValue(d, 0) ELSE DigitsValue(d, 0)]
        ELSE [nan |-> TRUE, val |-> 0]

\* parseInt(s, 10) || 0
ParseIntOrZero(s) == IF ParseInt(s).nan THEN 0 ELSE ParseInt(s).val

\* ---------------------------------------------------------- size formatting
\* route.ts:164-167.  A formatted size is [whole, frac, unit]: "2.00 KB" is
\* [whole |-> 2, frac |-> 0, unit |-> "KB"]; the B form has no decimals,
\* frac = NoFrac.
NoFrac == 0 - 1
KB == 1024
MB == 1024 * 1024
GB == 1024 * 1024 * 1024

\* (r * 25) / m rounded half up, for 0 <= r < m, m a power of two >= 2^14.
\* r * 25 is split so that no product leaves 32 bits.
RoundFrac(r, m) ==
    LET lo == 16384
        a == r \div lo
        b == r % lo
    IN  ((a * 25 + (m \div lo) \div 2) + (b * 25) \div lo) \div (m \div lo)

\* The Hundredths of a conversion that cuts the quotient off after its
\* second decimal.
HundredthsCut(n, unit) ==
    LET m == unit \div 4
    IN  IF m < 16384
        THEN (n \div m) * 25 + ((n % m) * 25) \div m
        ELSE (n \div m) * 25 + (((n % m) \div 64) * 25) \div (m \div 64)

\* (n / unit).toFixed(2) as a number of hundredths: n * 100 / unit rounded to
\* the nearest integer, a tie going up.  n / unit is exact in a double (unit
\* is a power of two), so toFixed rounds the true quotient.
Hundredths(n, unit) ==
    LET m == unit \div 4
    IN  IF m < 16384
        THEN (n \div m) * 25 + ((n % m) * 25 + m \div 2) \div m
        ELSE (n \div m) * 25 + RoundFrac(n % m, m)

FormatSize(n) ==
    IF n < KB THEN [whole |-> n, frac |-> NoFrac, unit |-> "B"]
    ELSE IF n < MB
         THEN [whole |-> Hundredths(n, KB) \div 100,
               frac |-> Hundredths(n, KB) % 100, unit |-> "KB"]
    ELSE IF n < GB
         THEN [whole |-> Hundredths(n, MB) \div 100,
               frac |-> Hundredths(n, MB) % 100, unit |-> "MB"]
    ELSE [whole |-> Hundredths(n, GB) \div 100,
          frac |-> Hundredths(n, GB) % 100, unit |-> "GB"]

\* parseInt(s, 10) of a string whose value needs more than 31 bits (a double
\* holds every integer below 2^53): the value is hi * 2^20 + lo with
\* 0 <= lo < 2^20.  WideDigits reads the longest prefix of decimal digits,
\* <<hi, lo>> being the value of the digits already read.
RECURSIVE WideDigits(_, _, _)
WideDigits(s, hi, lo) ==
    IF s # <<>> /\ Head(s) \in Digits
    THEN WideDigits(Tail(s),
                    hi * 10 + (lo * 10 + DigitVal(Head(s))) \div MB,
                    (lo * 10 + DigitVal(Head(s))) % MB)
    ELSE <<hi, lo>>

ParseWide(s) ==
    LET t == TrimStart(s)
        neg == t # <<>> /\ Head(t) = "-"
        signed == t # <<>> /\ Head(t) \in {"-", "+"}
        d == IF signed THEN Tail(t) ELSE t
    IN  IF d # <<>> /\ Head(d) \in Digits
        THEN [nan |-> FALSE, neg |-> neg,
              hi |-> WideDigits(d, 0, 0)[1], lo |-> WideDigits(d, 0, 0)[2]]
        ELSE [nan |-> TRUE, neg |-> FALSE, hi |-> 0, lo |-> 0]

\* route.ts:167 for n = hi * 2^20 + lo >= 2^31: n / 2^30 is (hi \div 1024)
\* and a remainder below 2^30, whose hundredths Hundredths rounds.
FormatWide(hi, lo) ==
    LET h == (hi \div KB) * 100 + Hundredths((hi % KB) * MB + lo, GB)
    IN  [whole |-> h \div 100, frac |-> h % 100, unit |-> "GB"]

\* formattedSize of a stored size: the size itself (unit "raw") when it does
\* not parse.  A negative n is below 1024: "-5 B".
FormattedSize(size) ==
    LET n == ParseWide(size) IN
    IF n.nan
    THEN [whole |-> 0, frac |-> NoFrac, unit |-> "raw"]
    ELSE IF n.neg THEN FormatSize(0 - (n.hi * MB + n.lo))
    ELSE IF n.hi < 2 * KB THEN FormatSize(n.hi * MB + n.lo)
    ELSE FormatWide(n.hi, n.lo)

\* ------------------------------------------------------------------- state
VARIABLES
    \* route.ts:18  the shared guard: 0 is null, p > 0 the promise of attempt p
    dbConnectionPromise,
    \* the promise stored by attempt p (connectToDatabase().catch(...)):
    \* "none" (not created), "pending", "fulfilled", "rejected"
    promise,
    \* how many times connectToDatabase was invoked
    connectCalls,
    \* route.ts:14  wallet -> [present, data, timestamp]
    fileListCache,
    \* the FileModel collection, in insertion (createdAt) order
    files,
    \* the next _id the database hands out
    nextId,
    \* the User collection: wallet -> <<>> (no account) or <<totalStorageUsed>>
    users,
    \* Date.now(), and how often it has advanced
    now, ticks,
    \* the handlers in flight: slot -> request (see IdleReq)
    reqs,
    \* requests started so far
    started,
    \* history: wallet -> number of changes made to its FileRecords
    epoch,
    \* history: wallet -> epoch of the latest change whose handler answered 200
    completed,
    \* history: wallet -> epoch at the database read the cached list came from
    cacheEpoch,
    \* history: the <<wallet, cid>> whose latest DELETE answered 200 with no
    \* create for them since
    deleted,
    \* history: wallet -> the latest list a GET answered with, with no create
    \* or delete for the wallet since
    lastGet,
    \* history: some awaited database operation has thrown
    dbFailed,
    \* history: a create has stored a record whose size does not parse
    invalidCreated,
    \* the upload proxy (src/unnamed/part_000): process.env's key, the proxy
    \* handlers in flight, requests started, calls made to the external API
    apiKey, proxy, proxyStarted, fetchCalls

dbVars == <<files, nextId, users>>
connVars == <<dbConnectionPromise, promise, connectCalls>>
clockVars == <<now, ticks>>
histVars == <<epoch, completed, cacheEpoch, deleted, lastGet, dbFailed,
              invalidCreated>>
proxyVars == <<apiKey, proxy, proxyStarted, fetchCalls>>
routeVars == <<dbConnectionPromise, promise, connectCalls, fileListCache, files,
               nextId, users, now, ticks, reqs, started, epoch, completed,
               cacheEpoch, deleted, lastGet, dbFailed, invalidCreated>>
vars == <<dbConnectionPromise, promise, connectCalls, fileListCache, files,
          nextId, users, now, ticks, reqs, started, epoch, completed,
          cacheEpoch, deleted, lastGet, dbFailed, invalidCreated, apiKey,
          proxy, proxyStarted, fetchCalls>>

NoEntry == [present |-> FALSE, data |-> <<>>, timestamp |-> 0]
NoList == [present |-> FALSE, data |-> <<>>, issuedAt |-> 0, storedAt |-> 0]

\* A handler that has not started.  Program state: op (the method), pc (the
\* await it stands at), the request's parameters (walletAddress, cid, size,
\* hasName, hasMime), awaits (the promise ensureDbConnection awaits),
\* connected, file (DELETE's findOne result, <<>> or <<record>>), files (GET's
\* find result), userUpdate (POST's findOneAndUpdate result), status and
\* result (the response).  History: hit, queried, changed, threw (an awaited
\* database operation threw into the handler), acctBefore, acctAfter,
\* issuedAt, floor, dataEpoch, readEpoch, myEpoch, afterDelete, prev,
\* fresh.
IdleReq ==
    [op |-> "none", pc |-> "idle", walletAddress |-> "", cid |-> "",
     size |-> <<>>, hasName |-> FALSE, hasMime |-> FALSE,
     awaits |-> 0, connected |-> "unknown",
     file |-> <<>>, files |-> <<>>, userUpdate |-> <<>>,
     status |-> 0, result |-> <<>>,
     hit |-> FALSE, queried |-> FALSE, changed |-> FALSE, threw |-> FALSE,
     acctBefore |-> <<>>, acctAfter |-> <<>>,
     issuedAt |-> 0, floor |-> 0, dataEpoch |-> 0, readEpoch |-> 0,
     myEpoch |-> 0, afterDelete |-> FALSE, prev |-> <<>>, fresh |-> <<>>]

\* The database outlives the process.  When the process starts the module
\* state is fresh (route.ts:14, 18) and the database holds what an earlier
\* create of a 12-byte file by wallet w1 left in it: the record and the
\* account; wallet w2 has neither.
StoredAtStart ==
    << [id |-> 1, cid |-> "c1", walletAddress |-> "w1", size |-> <<"1", "2">>] >>

\* A proxy handler that has not started.
IdleProxy == [pc |-> "idle", form |-> "", status |-> 0]

InitRoute ==
    /\ dbConnectionPromise = 0
    /\ promise = [p \in 1..MaxAttempts |-> "none"]
    /\ connectCalls = 0
    /\ fileListCache = [w \in Wallets |-> NoEntry]
    /\ files = StoredAtStart
    /\ nextId = Len(StoredAtStart) + 1
    /\ users = [w \in Wallets |->
                   IF w = "w1"
                   THEN <<ParseIntOrZero(StoredAtStart[1].size)>>
                   ELSE <<>>]
    /\ now = 0
    /\ ticks = 0
    /\ reqs = [r \in Slots |-> IdleReq]
    /\ started = 0
    /\ epoch = [w \in Wallets |-> 0]
    /\ completed = [w \in Wallets |-> 0]
    /\ cacheEpoch = [w \in Wallets |-> 0]
    /\ deleted = {}
    /\ lastGet = [w \in Wallets |-> NoList]
    /\ dbFailed = FALSE
    /\ invalidCreated = FALSE

InitProxy ==
    /\ proxy = [r \in Slots |-> IdleProxy]
    /\ proxyStarted = 0
    /\ fetchCalls = 0

Init == InitRoute /\ InitProxy /\ apiKey = TRUE

\* Slot r takes the next request: it is the lowest slot whose handler is not
\* in flight (a slot whose handler has answered keeps the response until it
\* is taken again), and fewer than MaxRequests requests have started.
Free(r) ==
    /\ reqs[r].pc \in {"idle", "done"}
    /\ \A s \in Slots : s < r => reqs[s].pc \notin {"idle", "done"}
    /\ started < MaxRequests

\* -------------------------------------------------------------- the clock
Tick ==
    /\ ticks < MaxTicks
    /\ now' = now + TickStep(ticks)
    /\ ticks' = ticks + 1
    /\ UNCHANGED <<connVars, fileListCache, dbVars, reqs, started, histVars,
                   proxyVars>>

\* ------------------------------------------------------ ensureDbConnection
\* The NoAttemptOutstanding of a guard that is never consulted: every caller
\* opens a connection of its own.
AlwaysConnect(guard) == TRUE

\* route.ts:22  if (!dbConnectionPromise)
NoAttemptOutstanding(guard) == guard = 0

\* The promise a caller of ensureDbConnection awaits (route.ts:33): the new
\* attempt's when it starts one (route.ts:24), the outstanding one otherwise.
Awaited ==
    IF NoAttemptOutstanding(dbConnectionPromise)
    THEN connectCalls + 1
    ELSE dbConnectionPromise

\* route.ts:22-30, the part of ensureDbConnection that runs before its await.
\* At most MaxAttempts attempts are modelled.
EnsureCall ==
    /\ NoAttemptOutstanding(dbConnectionPromise) => connectCalls < MaxAttempts
    /\ dbConnectionPromise' = Awaited
    /\ IF NoAttemptOutstanding(dbConnectionPromise)
       THEN /\ promise' = [promise EXCEPT ![connectCalls + 1] = "pending"]
            /\ connectCalls' = connectCalls + 1
       ELSE UNCHANGED <<promise, connectCalls>>

\* The GuardAfterCatchCallback of a .catch callback that rethrows without
\* clearing the guard.
GuardKept(guard) == guard

\* route.ts:27  the guard after the .catch callback of a failed attempt.
GuardAfterCatchCallback(guard) == 0

\* route.ts:38  the guard after the catch block of a caller whose await threw.
GuardAfterCatchBlock(guard) == 0

\* connectToDatabase of attempt p resolves: the stored promise is fulfilled.
ConnectSucceeds(p) ==
    /\ promise[p] = "pending"
    /\ promise' = [promise EXCEPT ![p] = "fulfilled"]
    /\ UNCHANGED <<dbConnectionPromise, connectCalls, fileListCache, dbVars,
                   clockVars, reqs, started, histVars, proxyVars>>

\* connectToDatabase of attempt p rejects: the .catch callback (route.ts:25-29)
\* clears the guard and rethrows, which rejects the stored promise.
ConnectFails(p) ==
    /\ promise[p] = "pending"
    /\ promise' = [promise EXCEPT ![p] = "rejected"]
    /\ dbConnectionPromise' = GuardAfterCatchCallback(dbConnectionPromise)
    /\ UNCHANGED <<connectCalls, fileListCache, dbVars, clockVars, reqs,
                   started, histVars, proxyVars>>

\* The first database operation each handler issues once connected.
FirstDbOp(op) ==
    CASE op = "POST" -> "create" [] op = "GET" -> "find"
      [] op = "DELETE" -> "findOne"

Respond(req, st) == [req EXCEPT !.pc = "done", !.status = st]

\* history: a create or delete naming wallet w took a step.
Touched(w) ==
    IF w \in Wallets THEN [lastGet EXCEPT ![w] = NoList] ELSE lastGet

IsMutation(req) == req.op \in {"POST", "DELETE"}

\* The AwaitConnection of handlers that go on to the database whatever
\* ensureDbConnection answers.
AwaitIgnoringFailure(r) ==
    LET req == reqs[r] IN
    /\ req.pc = "conn"
    /\ promise[req.awaits] \in {"fulfilled", "rejected"}
    /\ reqs' = [reqs EXCEPT ![r] =
          [req EXCEPT !.pc = FirstDbOp(req.op),
                      !.connected = IF promise[req.awaits] = "fulfilled"
                                    THEN "true" ELSE "false"]]
    /\ dbConnectionPromise' =
          IF promise[req.awaits] = "fulfilled" THEN dbConnectionPromise
          ELSE GuardAfterCatchBlock(dbConnectionPromise)
    /\ lastGet' = IF IsMutation(req) THEN Touched(req.walletAddress) ELSE lastGet
    /\ UNCHANGED <<promise, connectCalls, fileListCache, dbVars, clockVars,
                   started, epoch, completed, cacheEpoch, deleted, dbFailed,
                   invalidCreated, proxyVars>>

\* route.ts:32-40 and the handler's check of the answer (route.ts:61-64,
\* 146-149, 215-218): the awaited promise has settled.
AwaitConnection(r) ==
    LET req == reqs[r] IN
    /\ req.pc = "conn"
    /\ promise[req.awaits] \in {"fulfilled", "rejected"}
    /\ IF promise[req.awaits] = "fulfilled"
       THEN /\ reqs' = [reqs EXCEPT ![r] = [req EXCEPT !.connected = "true",
                                                     !.pc = FirstDbOp(req.op)]]
            /\ UNCHANGED dbConnectionPromise
       ELSE /\ reqs' = [reqs EXCEPT ![r] =
                           Respond([req EXCEPT !.connected = "false"], 503)]
            /\ dbConnectionPromise' = GuardAfterCatchBlock(dbConnectionPromise)
    /\ lastGet' = IF IsMutation(req) THEN Touched(req.walletAddress) ELSE lastGet
    /\ UNCHANGED <<promise, connectCalls, fileListCache, dbVars, clockVars,
                   started, epoch, completed, cacheEpoch, deleted, dbFailed,
                   invalidCreated, proxyVars>>

\* ---------------------------------------------------------------- database
RECURSIVE Reverse(_)
Reverse(s) == IF s = <<>> THEN <<>> ELSE Append(Reverse(Tail(s)), Head(s))

\* FileModel.find({ walletAddress }).sort({ createdAt: -1 })  (route.ts:152-155)
FindByWallet(coll, w) ==
    LET Mine(f) == f.walletAddress = w
    IN  Reverse(SelectSeq(coll, Mine))

\* The FirstMatch of a filter that names the cid alone.
FirstMatchAnyOwner(coll, c, w) ==
    LET hits == {i \in 1..Len(coll) : coll[i].cid = c}
    IN  IF hits = {} THEN 0 ELSE CHOOSE i \in hits : \A j \in hits : i <= j

\* Index of the first record matching { cid, walletAddress }, 0 when none.
FirstMatch(coll, c, w) ==
    LET hits == {i \in 1..Len(coll) :
                    coll[i].cid = c /\ coll[i].walletAddress = w}
    IN  IF hits = {} THEN 0 ELSE CHOOSE i \in hits : \A j \in hits : i <= j

\* FileModel.findOne({ cid, walletAddress })  (route.ts:220)
FindOne(coll, c, w) ==
    IF FirstMatch(coll, c, w) = 0 THEN <<>> ELSE <<coll[FirstMatch(coll, c, w)]>>

\* FileModel.deleteOne({ cid, walletAddress })  (route.ts:228): the first
\* matching record is removed, the others stay.
DeleteOne(coll, c, w) ==
    LET k == FirstMatch(coll, c, w)
    IN  IF k = 0 THEN coll
        ELSE [i \in 1..(Len(coll) - 1) |-> IF i < k THEN coll[i] ELSE coll[i + 1]]

\* The UpsertInc of an update written with $set in place of $inc.
UpsertSet(acct, n) == <<n>>

\* User.findOneAndUpdate({ walletAddress }, { $inc }, { upsert: true, new: true })
\* (route.ts:82-92): the account after the update.
UpsertInc(acct, n) == IF acct = <<>> THEN <<n>> ELSE <<acct[1] + n>>

\* The IncExisting of an update that keeps totalStorageUsed at zero or above.
IncFloored(acct, n) ==
    IF acct = <<>> THEN <<>>
    ELSE IF acct[1] + n < 0 THEN <<0>> ELSE <<acct[1] + n>>

\* User.findOneAndUpdate({ walletAddress }, { $inc })  (route.ts:231-234): no
\* upsert, so a missing account stays missing.
IncExisting(acct, n) == IF acct = <<>> THEN <<>> ELSE <<acct[1] + n>>

\* An awaited database operation throws; the handler's catch answers 500
\* (route.ts:105-117, 189-198, 241-246).
DbOperationFails(r) ==
    LET req == reqs[r] IN
    /\ req.pc \in {"create", "upsert", "find", "findOne", "deleteOne", "dec"}
    /\ reqs' = [reqs EXCEPT ![r] = Respond([req EXCEPT !.threw = TRUE], 500)]
    /\ lastGet' = IF IsMutation(req) THEN Touched(req.walletAddress) ELSE lastGet
    /\ dbFailed' = TRUE
    /\ UNCHANGED <<connVars, fileListCache, dbVars, clockVars, started, epoch,
                   completed, cacheEpoch, deleted, invalidCreated, proxyVars>>

\* --------------------------------------------------------------------- GET
\* The CacheHit of a handler that compares the age in milliseconds with the
\* route's revalidate period in seconds (route.ts:11).
CacheHitSeconds(entry, t) == entry.present /\ (t - entry.timestamp) < 30

\* The CacheHit of a handler that serves an entry up to and including the age
\* CACHE_TTL.
CacheHitInclusive(entry, t) ==
    entry.present /\ (t - entry.timestamp) <= CACHE_TTL

\* route.ts:140  the cached entry is served.
CacheHit(entry, t) == entry.present /\ (t - entry.timestamp) < CACHE_TTL

\* route.ts:158-179  one record of the answer.
Decorate(f) ==
    [id |-> f.id, cid |-> f.cid, walletAddress |-> f.walletAddress,
     size |-> f.size, formattedSize |-> FormattedSize(f.size)]

Transform(fs) == [i \in 1..Len(fs) |-> Decorate(fs[i])]

\* route.ts:182-185  the entry GET stores.
CacheEntry(data, t) == [present |-> TRUE, data |-> data, timestamp |-> t]

\* history: the list an earlier GET for w answered with, if one was issued
\* less than CACHE_TTL ago with no create or delete for w since.
Previous(w) ==
    IF lastGet[w].present /\ now - lastGet[w].issuedAt < CACHE_TTL
    THEN <<lastGet[w].data>>
    ELSE <<>>

\* history: that list, if it was stored in the cache less than CACHE_TTL ago.
Fresh(w) ==
    IF lastGet[w].present /\ now - lastGet[w].storedAt < CACHE_TTL
    THEN <<lastGet[w].data>>
    ELSE <<>>

\* route.ts:121-149  GET up to its first await.
GetStart(r, w) ==
    LET base == [IdleReq EXCEPT !.op = "GET", !.walletAddress = w,
                                !.issuedAt = now]
    IN
    /\ Free(r)
    /\ started' = started + 1
    /\ IF w = ""
       THEN /\ reqs' = [reqs EXCEPT ![r] = Respond(base, 400)]
            /\ UNCHANGED <<connVars, lastGet>>
       ELSE IF CacheHit(fileListCache[w], now)
       THEN /\ reqs' = [reqs EXCEPT ![r] =
                  Respond([base EXCEPT !.result = fileListCache[w].data,
                                       !.hit = TRUE,
                                       !.floor = completed[w],
                                       !.dataEpoch = cacheEpoch[w],
                                       !.prev = Previous(w),
                                       !.fresh = Fresh(w)], 200)]
            /\ lastGet' = [lastGet EXCEPT ![w] =
                  [present |-> TRUE, data |-> fileListCache[w].data,
                   issuedAt |-> now,
                   storedAt |-> fileListCache[w].timestamp]]
            /\ UNCHANGED connVars
       ELSE /\ EnsureCall
            /\ reqs' = [reqs EXCEPT ![r] =
                  [base EXCEPT !.pc = "conn", !.awaits = Awaited,
                               !.floor = completed[w],
                               !.prev = Previous(w), !.fresh = Fresh(w)]]
            /\ UNCHANGED lastGet
    /\ UNCHANGED <<fileListCache, dbVars, clockVars, epoch, completed,
                   cacheEpoch, deleted, dbFailed,
                   invalidCreated, proxyVars>>

\* route.ts:152-155  the database executes the find.
GetFind(r) ==
    LET req == reqs[r] IN
    /\ req.pc = "find"
    /\ reqs' = [reqs EXCEPT ![r] =
          [req EXCEPT !.pc = "store",
                      !.files = FindByWallet(files, req.walletAddress),
                      !.queried = TRUE,
                      !.readEpoch = epoch[req.walletAddress]]]
    /\ UNCHANGED <<connVars, fileListCache, dbVars, clockVars, started,
                   histVars, proxyVars>>

\* route.ts:158-188  after the find: transform, store in the cache, answer.
GetStore(r) ==
    LET req == reqs[r]
        w == req.walletAddress
        transformedFiles == Transform(req.files)
    IN
    /\ req.pc = "store"
    /\ fileListCache' = [fileListCache EXCEPT ![w] =
                            CacheEntry(transformedFiles, now)]
    /\ reqs' = [reqs EXCEPT ![r] =
          Respond([req EXCEPT !.result = transformedFiles], 200)]
    /\ cacheEpoch' = [cacheEpoch EXCEPT ![w] = req.readEpoch]
    /\ lastGet' = [lastGet EXCEPT ![w] =
          [present |-> TRUE, data |-> transformedFiles,
           issuedAt |-> req.issuedAt, storedAt |-> now]]
    /\ UNCHANGED <<connVars, dbVars, clockVars, started, epoch, completed,
                   deleted, dbFailed,
                   invalidCreated, proxyVars>>

\* -------------------------------------------------------------------- POST
\* The JSON bodies tried: every complete body, and the complete body
\* { w1, c1, "12" } with each one of its five fields left out.
CompleteBodies ==
    [walletAddress : Wallets, cid : Cids, size : SizeInputs \ {<<>>},
     hasName : {TRUE}, hasMime : {TRUE}]

SampleBody ==
    [walletAddress |-> "w1", cid |-> "c1", size |-> <<"1", "2">>,
     hasName |-> TRUE, hasMime |-> TRUE]

IncompleteBodies ==
    { [SampleBody EXCEPT !.walletAddress = ""],
      [SampleBody EXCEPT !.cid = ""],
      [SampleBody EXCEPT !.size = <<>>],
      [SampleBody EXCEPT !.hasName = FALSE],
      [SampleBody EXCEPT !.hasMime = FALSE] }

Bodies == CompleteBodies \cup IncompleteBodies

\* route.ts:50  if (!walletAddress)
NoWallet(body) == body.walletAddress = ""

\* The MissingFields of a handler that does not require mimeType.
MissingButMime(body) == ~body.hasName \/ body.cid = "" \/ body.size = <<>>

\* route.ts:55  if (!fileName || !cid || !size || !mimeType)
MissingFields(body) ==
    ~body.hasName \/ body.cid = "" \/ body.size = <<>> \/ ~body.hasMime

\* The CacheDelete of an invalidation that empties the whole cache.
CacheClear(cache, w) == [v \in DOMAIN cache |-> NoEntry]

\* route.ts:101, 238  fileListCache.delete(cacheKey)
CacheDelete(cache, w) == [cache EXCEPT ![w] = NoEntry]

\* history: a create for (w, c) is under way, so a DELETE of (w, c) that
\* follows an earlier one no longer does so "with no create in between".
NotAfterDelete(req, w, c) ==
    IF req.op = "DELETE" /\ req.walletAddress = w /\ req.cid = c
    THEN [req EXCEPT !.afterDelete = FALSE]
    ELSE req

Max(a, b) == IF a >= b THEN a ELSE b

\* route.ts:43-64  POST up to its await of ensureDbConnection (the body has
\* been read).
PostStart(r, body) ==
    LET base == [IdleReq EXCEPT !.op = "POST",
                                !.walletAddress = body.walletAddress,
                                !.cid = body.cid, !.size = body.size,
                                !.hasName = body.hasName,
                                !.hasMime = body.hasMime]
    IN
    /\ Free(r)
    /\ started' = started + 1
    /\ IF NoWallet(body) \/ MissingFields(body)
       THEN /\ reqs' = [reqs EXCEPT ![r] = Respond(base, 400)]
            /\ UNCHANGED <<connVars, deleted>>
       ELSE /\ EnsureCall
            /\ reqs' = [s \in Slots |->
                  IF s = r
                  THEN [base EXCEPT !.pc = "conn", !.awaits = Awaited]
                  ELSE NotAfterDelete(reqs[s], body.walletAddress, body.cid)]
            /\ deleted' = deleted \ {<<body.walletAddress, body.cid>>}
    /\ lastGet' = Touched(body.walletAddress)
    /\ UNCHANGED <<fileListCache, dbVars, clockVars, epoch, completed,
                   cacheEpoch, dbFailed,
                   invalidCreated, proxyVars>>

\* route.ts:45  request.json() throws on a body that is not JSON: 500.
PostBadJson(r) ==
    /\ Free(r)
    /\ started' = started + 1
    /\ reqs' = [reqs EXCEPT ![r] =
          Respond([IdleReq EXCEPT !.op = "POST"], 500)]
    /\ UNCHANGED <<connVars, fileListCache, dbVars, clockVars, histVars,
                   proxyVars>>

\* The record FileModel.create stores (route.ts:67-73).
NewFile(req, id) ==
    [id |-> id, cid |-> req.cid, walletAddress |-> req.walletAddress,
     size |-> req.size]

\* FileModel.create: the schema (models/File, not among the sources) is taken
\* to declare no unique index, as the data model of the specification has it
\* ("uniqueness is by (contentId, walletAddress) in practice"): the record is
\* added whatever the collection holds.
FileModelCreate(coll, rec) == Append(coll, rec)

\* The InvalidSize of a handler that does not check the parsed size.
NeverInvalid(size) == FALSE

\* route.ts:76  isNaN(sizeInBytes)
InvalidSize(size) == ParseInt(size).nan

\* route.ts:67-79  the database executes the create; then the size is parsed.
PostCreate(r) ==
    LET req == reqs[r]
        w == req.walletAddress
        made == [req EXCEPT !.changed = TRUE, !.myEpoch = epoch[w] + 1]
    IN
    /\ req.pc = "create"
    /\ files' = FileModelCreate(files, NewFile(req, nextId))
    /\ nextId' = nextId + 1
    /\ epoch' = [epoch EXCEPT ![w] = epoch[w] + 1]
    /\ reqs' = [s \in Slots |->
          IF s = r
          THEN IF InvalidSize(req.size)
               THEN Respond(made, 400)
               ELSE [made EXCEPT !.pc = "upsert"]
          ELSE NotAfterDelete(reqs[s], w, req.cid)]
    /\ deleted' = deleted \ {<<w, req.cid>>}
    /\ lastGet' = Touched(w)
    /\ invalidCreated' = (invalidCreated \/ InvalidSize(req.size))
    /\ UNCHANGED <<connVars, fileListCache, users, clockVars, started,
                   completed, cacheEpoch, dbFailed,
                   proxyVars>>

\* route.ts:82-92  the database executes the upsert.
PostUpsert(r) ==
    LET req == reqs[r]
        w == req.walletAddress
        after == UpsertInc(users[w], ParseInt(req.size).val)
    IN
    /\ req.pc = "upsert"
    /\ users' = [users EXCEPT ![w] = after]
    /\ reqs' = [reqs EXCEPT ![r] =
          [req EXCEPT !.pc = "postFinish", !.userUpdate = after,
                      !.acctBefore = users[w], !.acctAfter = after]]
    /\ lastGet' = Touched(w)
    /\ UNCHANGED <<connVars, fileListCache, files, nextId, clockVars, started,
                   epoch, completed, cacheEpoch, deleted, dbFailed,
                   invalidCreated, proxyVars>>

\* route.ts:94-104  after the upsert: invalidate the cache, answer.
PostFinish(r) ==
    LET req == reqs[r]
        w == req.walletAddress
    IN
    /\ req.pc = "postFinish"
    /\ IF req.userUpdate = <<>>
       THEN /\ reqs' = [reqs EXCEPT ![r] = Respond(req, 500)]
            /\ UNCHANGED <<fileListCache, completed, cacheEpoch>>
       ELSE /\ fileListCache' = CacheDelete(fileListCache, w)
            /\ reqs' = [reqs EXCEPT ![r] = Respond(req, 200)]
            /\ completed' = [completed EXCEPT ![w] = Max(completed[w], req.myEpoch)]
            /\ cacheEpoch' = [cacheEpoch EXCEPT ![w] = 0]
    /\ lastGet' = Touched(w)
    /\ UNCHANGED <<connVars, dbVars, clockVars, started, epoch, deleted,
                   dbFailed,
                   invalidCreated, proxyVars>>

\* ------------------------------------------------------------------ DELETE
\* The <<cid, walletAddress>> query strings tried: every complete one, and
\* one with each parameter left out.
DeleteQueries == (Cids \X Wallets) \cup {<<"", "w1">>, <<"c1", "">>}

\* route.ts:202-218  DELETE up to its await of ensureDbConnection.
DeleteStart(r, c, w) ==
    LET base == [IdleReq EXCEPT !.op = "DELETE", !.walletAddress = w,
                                !.cid = c]
    IN
    /\ Free(r)
    /\ started' = started + 1
    /\ IF c = "" \/ w = ""
       THEN /\ reqs' = [reqs EXCEPT ![r] = Respond(base, 400)]
            /\ UNCHANGED connVars
       ELSE /\ EnsureCall
            /\ reqs' = [reqs EXCEPT ![r] =
                  [base EXCEPT !.pc = "conn", !.awaits = Awaited,
                               !.afterDelete = (<<w, c>> \in deleted)]]
    /\ lastGet' = Touched(w)
    /\ UNCHANGED <<fileListCache, dbVars, clockVars, epoch, completed,
                   cacheEpoch, deleted, dbFailed,
                   invalidCreated, proxyVars>>

\* route.ts:220-226  the database executes the findOne; 404 when none matches.
DeleteFindOne(r) ==
    LET req == reqs[r]
        file == FindOne(files, req.cid, req.walletAddress)
    IN
    /\ req.pc = "findOne"
    /\ reqs' = [reqs EXCEPT ![r] =
          IF file = <<>>
          THEN Respond(req, 404)
          ELSE [req EXCEPT !.pc = "deleteOne", !.file = file]]
    /\ lastGet' = Touched(req.walletAddress)
    /\ UNCHANGED <<connVars, fileListCache, dbVars, clockVars, started, epoch,
                   completed, cacheEpoch, deleted, dbFailed,
                   invalidCreated, proxyVars>>

\* route.ts:228  the database executes the deleteOne.
DeleteDeleteOne(r) ==
    LET req == reqs[r]
        w == req.walletAddress
        left == DeleteOne(files, req.cid, w)
        removed == Len(left) < Len(files)
    IN
    /\ req.pc = "deleteOne"
    /\ files' = left
    /\ epoch' = [epoch EXCEPT ![w] = IF removed THEN epoch[w] + 1 ELSE epoch[w]]
    /\ reqs' = [reqs EXCEPT ![r] =
          [req EXCEPT !.pc = "dec", !.changed = removed,
                      !.myEpoch = IF removed THEN epoch[w] + 1 ELSE 0]]
    /\ lastGet' = Touched(w)
    /\ UNCHANGED <<connVars, fileListCache, nextId, users, clockVars, started,
                   completed, cacheEpoch, deleted, dbFailed,
                   invalidCreated, proxyVars>>

\* route.ts:230  the amount DELETE takes off the account.
SizeToRelease(file) == ParseIntOrZero(file.size)

\* route.ts:230-234  the database executes the decrement.
DeleteDecrement(r) ==
    LET req == reqs[r]
        w == req.walletAddress
        after == IncExisting(users[w], 0 - SizeToRelease(req.file[1]))
    IN
    /\ req.pc = "dec"
    /\ users' = [users EXCEPT ![w] = after]
    /\ reqs' = [reqs EXCEPT ![r] =
          [req EXCEPT !.pc = "deleteFinish", !.acctBefore = users[w],
                      !.acctAfter = after]]
    /\ lastGet' = Touched(w)
    /\ UNCHANGED <<connVars, fileListCache, files, nextId, clockVars, started,
                   epoch, completed, cacheEpoch, deleted, dbFailed,
                   invalidCreated, proxyVars>>

\* route.ts:236-240  after the decrement: invalidate the cache, answer.
DeleteFinish(r) ==
    LET req == reqs[r]
        w == req.walletAddress
    IN
    /\ req.pc = "deleteFinish"
    /\ fileListCache' = CacheDelete(fileListCache, w)
    /\ reqs' = [reqs EXCEPT ![r] = Respond(req, 200)]
    /\ completed' = [completed EXCEPT ![w] = Max(completed[w], req.myEpoch)]
    /\ cacheEpoch' = [cacheEpoch EXCEPT ![w] = 0]
    /\ deleted' = deleted \cup {<<w, req.cid>>}
    /\ lastGet' = Touched(w)
    /\ UNCHANGED <<connVars, dbVars, clockVars, started, epoch, dbFailed,
                   invalidCreated, proxyVars>>

\* ----------------------------------------------------------- specification
Next ==
    \/ Tick
    \/ \E p \in 1..MaxAttempts : ConnectSucceeds(p)
    \/ \E p \in 1..MaxAttempts : ConnectFails(p)
    \/ \E r \in Slots : AwaitConnection(r)
    \/ \E r \in Slots : DbOperationFails(r)
    \/ \E r \in Slots, w \in Wallets \cup {""} : GetStart(r, w)
    \/ \E r \in Slots : GetFind(r)
    \/ \E r \in Slots : GetStore(r)
    \/ \E r \in Slots, body \in Bodies : PostStart(r, body)
    \/ \E r \in Slots : PostBadJson(r)
    \/ \E r \in Slots : PostCreate(r)
    \/ \E r \in Slots : PostUpsert(r)
    \/ \E r \in Slots : PostFinish(r)
    \/ \E r \in Slots, q \in DeleteQueries : DeleteStart(r, q[1], q[2])
    \/ \E r \in Slots : DeleteFindOne(r)
    \/ \E r \in Slots : DeleteDeleteOne(r)
    \/ \E r \in Slots : DeleteDecrement(r)
    \/ \E r \in Slots : DeleteFinish(r)

Spec == Init /\ [][Next]_vars

\* ------------------------------------------------------------ upload proxy
\* src/unnamed/part_000.  The multipart forms tried: with a file field,
\* without one, and a body request.formData() cannot parse.
Forms == {"file", "nofile", "unparsable"}
\* What the external API answers: a transport failure, an error status, a
\* success whose body is JSON, a success whose body is not.
Outcomes == {"neterr", "413", "502", "json", "notjson"}

RelayedStatus(outcome) ==
    CASE outcome = "413" -> 413 [] outcome = "502" -> 502

ProxyFree(r) ==
    /\ proxy[r].pc \in {"idle", "done"}
    /\ \A s \in Slots : s < r => proxy[s].pc \notin {"idle", "done"}
    /\ proxyStarted < MaxRequests

\* part_000:12  if (!webhashApiKey)
KeyMissing(key) == ~key

\* The FileMissing of a proxy that forwards the form without looking for the
\* file field.
FileNeverMissing(form) == FALSE

\* part_000:27  if (file) ... else: the form has no file field.
FileMissing(form) == form = "nofile"

ProxyRespond(form, st) == [pc |-> "done", form |-> form, status |-> st]

\* part_000:6-52  the proxy up to its await of fetch.
ProxyStart(r, form) ==
    /\ ProxyFree(r)
    /\ proxyStarted' = proxyStarted + 1
    /\ IF KeyMissing(apiKey)
       THEN /\ proxy' = [proxy EXCEPT ![r] = ProxyRespond(form, 500)]
            /\ UNCHANGED fetchCalls
       ELSE IF form = "unparsable"
       THEN /\ proxy' = [proxy EXCEPT ![r] = ProxyRespond(form, 500)]
            /\ UNCHANGED fetchCalls
       ELSE IF FileMissing(form)
       THEN /\ proxy' = [proxy EXCEPT ![r] = ProxyRespond(form, 400)]
            /\ UNCHANGED fetchCalls
       ELSE /\ proxy' = [proxy EXCEPT ![r] =
                  [pc |-> "fetch", form |-> form, status |-> 0]]
            /\ fetchCalls' = fetchCalls + 1
    /\ UNCHANGED <<routeVars, apiKey>>

\* part_000:53-98  the fetch settles and the answer is relayed.
ProxyFetchSettles(r, outcome) ==
    /\ proxy[r].pc = "fetch"
    /\ proxy' = [proxy EXCEPT ![r] =
          [@ EXCEPT !.pc = "done",
                    !.status = CASE outcome = "neterr" -> 500
                                 [] outcome = "json" -> 200
                                 [] outcome = "notjson" -> 500
                                 [] OTHER -> RelayedStatus(outcome)]]
    /\ UNCHANGED <<routeVars, apiKey, proxyStarted, fetchCalls>>

ProxyNext ==
    \/ \E r \in Slots, form \in Forms : ProxyStart(r, form)
    \/ \E r \in Slots, outcome \in Outcomes : ProxyFetchSettles(r, outcome)

\* The proxy alone, with the key configured or not.
ProxyInit == InitRoute /\ InitProxy /\ apiKey \in BOOLEAN

ProxySpec == ProxyInit /\ [][ProxyNext]_vars

\* -------------------------------------------------- formatting, on its own
\* The stored sizes whose formatting is examined: each side of every unit
\* threshold, quotients that round up, down, at a tie and into the next
\* whole number, sizes of 2^31 bytes and more, and strings parseInt reads in
\* part or not at all.
FormatSamples ==
    { <<"0">>,
      <<"1">>,
      <<"5", "0", "0">>,
      <<"1", "0", "0", "0">>,
      <<"1", "0", "2", "3">>,
      <<"1", "0", "2", "4">>,
      <<"1", "0", "3", "0">>,
      <<"1", "1", "5", "2">>,
      <<"1", "5", "3", "6">>,
      <<"2", "0", "4", "8">>,
      <<"1", "0", "4", "8", "5", "7", "5">>,
      <<"1", "0", "4", "8", "5", "7", "6">>,
      <<"1", "1", "7", "9", "6", "4", "8">>,
      <<"1", "5", "7", "2", "8", "6", "4">>,
      <<"5", "2", "4", "2", "8", "8", "0">>,
      <<"5", "3", "4", "7", "7", "3", "7">>,
      <<"1", "3", "4", "2", "1", "7", "7", "2", "8">>,
      <<"1", "0", "7", "3", "7", "4", "1", "8", "2", "3">>,
      <<"1", "0", "7", "3", "7", "4", "1", "8", "2", "4">>,
      <<"1", "2", "0", "7", "9", "5", "9", "5", "5", "2">>,
      <<"1", "2", "3", "4", "5", "6", "7", "8", "9", "0">>,
      <<"1", "6", "1", "0", "6", "1", "2", "7", "3", "6">>,
      <<"2", "1", "4", "7", "4", "8", "3", "6", "4", "7">>,
      <<"2", "1", "4", "7", "4", "8", "3", "6", "4", "8">>,
      <<"3", "2", "2", "1", "2", "2", "5", "4", "7", "2">>,
      <<"3", "2", "2", "1", "2", "2", "5", "4", "7", "3">>,
      <<"5", "0", "0", "0", "0", "0", "0", "0", "0", "0">>,
      <<"1", "0", "7", "3", "7", "4", "1", "8", "2", "4", "0", "0">>,
      <<"1", "2", "p", "x">>,
      <<" ", "4", "2">>,
      <<"x">>,
      <<"-", "5">> }

\* The database holds one record of wallet w1, of any of the sizes above, and
\* no account (the lists do not read the accounts).
FormatInit ==
    /\ dbConnectionPromise = 0
    /\ promise = [p \in 1..MaxAttempts |-> "none"]
    /\ connectCalls = 0
    /\ fileListCache = [w \in Wallets |-> NoEntry]
    /\ files \in { << [id |-> 1, cid |-> "c1", walletAddress |-> "w1",
                       size |-> z] >> : z \in FormatSamples }
    /\ nextId = 2
    /\ users = [w \in Wallets |-> <<>>]
    /\ now = 0
    /\ ticks = 0
    /\ reqs = [r \in Slots |-> IdleReq]
    /\ started = 0
    /\ epoch = [w \in Wallets |-> 0]
    /\ completed = [w \in Wallets |-> 0]
    /\ cacheEpoch = [w \in Wallets |-> 0]
    /\ deleted = {}
    /\ lastGet = [w \in Wallets |-> NoList]
    /\ dbFailed = FALSE
    /\ invalidCreated = FALSE
    /\ InitProxy
    /\ apiKey = TRUE

\* The lists alone: GETs, and the connection they need.
FormatNext ==
    \/ \E p \in 1..MaxAttempts : ConnectSucceeds(p)
    \/ \E r \in Slots : AwaitConnection(r)
    \/ \E r \in Slots, w \in Wallets : GetStart(r, w)
    \/ \E r \in Slots : GetFind(r)
    \/ \E r \in Slots : GetStore(r)

FormatSpec == FormatInit /\ [][FormatNext]_vars

\* ------------------------------------------------------------------ claims
Done(q, method) == q.op = method /\ q.pc = "done"

\* An account's totalStorageUsed, a missing account counting as 0.
Total(acct) == IF acct = <<>> THEN 0 ELSE acct[1]

\* s is the decimal notation of a non-negative integer, and that integer.
IsDecimal(s) == s # <<>> /\ \A i \in 1..Len(s) : s[i] \in Digits

RECURSIVE Decimal(_)
Decimal(s) ==
    IF s = <<>> THEN 0
    ELSE Decimal(SubSeq(s, 1, Len(s) - 1)) * 10 + DigitVal(s[Len(s)])

\* C1: a list (GET) for wallet w issued after a create or delete for w has
\* answered (200) never returns a cached list that was computed from a
\* database read preceding that mutation: the list a cache hit returns was
\* read at an epoch no older than the latest completed mutation known when
\* the GET was issued.
C1_NoStaleListAfterMutation ==
    \A r \in Slots :
        (Done(reqs[r], "GET") /\ reqs[r].hit) =>
            reqs[r].dataEpoch >= reqs[r].floor

\* No attempt but the first has been made, and it has not settled.
FirstAttemptPending == connectCalls >= 1 /\ promise[1] = "pending"

ValidCreate(q) ==
    /\ q.op = "POST"
    /\ q.walletAddress \in Wallets /\ q.cid \in Cids
    /\ q.hasName /\ q.hasMime
    /\ IsDecimal(q.size)

\* C3: a create whose required fields are all supplied and whose size is a
\* non-negative integer is answered 200 unless the database fails (503, 500),
\* and one answered 200 has raised the wallet's totalStorageUsed by exactly
\* that size at its single atomic upsert (the account being created at that
\* size when it did not exist), whatever other creates run in between.
C3_CreateAddsItsSize ==
    \A r \in Slots :
        (reqs[r].pc = "done" /\ ValidCreate(reqs[r])
            /\ reqs[r].status \notin {500, 503}) =>
            /\ reqs[r].status = 200
            /\ reqs[r].acctAfter # <<>>
            /\ reqs[r].userUpdate = reqs[r].acctAfter
            /\ Total(reqs[r].acctAfter) =
                  Total(reqs[r].acctBefore) + Decimal(reqs[r].size)

\* Two creates for wallet w2 ran together and both were answered 200: one
\* created the account at 12, the other raised it to 24.
C3_Witness ==
    /\ \A r \in Slots :
          /\ Done(reqs[r], "POST") /\ reqs[r].status = 200
          /\ reqs[r].walletAddress = "w2"
    /\ \E r \in Slots : reqs[r].acctBefore = <<>>
    /\ users["w2"] = <<24>>

\* C4: every DELETE that found its record and was answered 200 left the
\* wallet's totalStorageUsed at its value before the decrement minus the
\* integer parsed from the record's stored size (an unparsable size counting
\* as zero), in every run in which no database operation throws.
C4_DeleteReleasesItsSize ==
    \A r \in Slots :
        (Done(reqs[r], "DELETE") /\ reqs[r].status = 200 /\ ~dbFailed) =>
            Total(reqs[r].acctAfter) =
                Total(reqs[r].acctBefore)
                    - (IF IsDecimal(reqs[r].file[1].size)
                       THEN Decimal(reqs[r].file[1].size) ELSE 0)

\* C5: a DELETE for (cid, walletAddress) issued after a DELETE for the same
\* pair was answered 200, with no create for the pair in between, is
\* answered 404 (unless the database fails: 503, 500).
C5_SecondDeleteNotFound ==
    \A r \in Slots :
        (Done(reqs[r], "DELETE") /\ reqs[r].afterDelete
            /\ reqs[r].status \notin {500, 503}) =>
            reqs[r].status = 404

\* C6 as claimed: a GET issued less than 30 s after an earlier GET for the
\* same wallet was issued, with no create or delete for the wallet in
\* between, returns exactly the list the earlier one returned and performs no
\* database query.
C6_RepeatWithinTtlOfIssue ==
    \A r \in Slots :
        (reqs[r].op = "GET" /\ reqs[r].prev # <<>>) =>
            /\ reqs[r].pc = "done"
            /\ reqs[r].status = 200
            /\ ~reqs[r].queried
            /\ reqs[r].result = reqs[r].prev[1]

\* C6 as amended: a GET issued less than 30 s after the list of the latest
\* answered GET for the same wallet was stored in the cache, with no create
\* or delete for the wallet since that GET, is answered at once, without a
\* database query, with exactly that list.
C6_RepeatWithinTtlOfStore ==
    \A r \in Slots :
        (reqs[r].op = "GET" /\ reqs[r].fresh # <<>>) =>
            /\ reqs[r].pc = "done"
            /\ reqs[r].status = 200
            /\ ~reqs[r].queried
            /\ reqs[r].awaits = 0
            /\ reqs[r].result = reqs[r].fresh[1]

\* A GET issued 29999 ms after the list was stored repeats that list, which
\* is not empty.
C6_Witness ==
    \E r \in Slots :
        /\ Done(reqs[r], "GET") /\ reqs[r].fresh # <<>>
        /\ reqs[r].issuedAt = CACHE_TTL - 1
        /\ reqs[r].result # <<>>
        /\ lastGet[reqs[r].walletAddress].storedAt = 0

\* Slot r's handler answers in this step.
Answers(r) == reqs[r].pc # "done" /\ reqs'[r].pc = "done"

\* C7: a POST or DELETE that has added or removed a FileRecord of a wallet
\* leaves no cache entry for that wallet when it answers, on every response
\* path.
C7_MutationLeavesNoEntry ==
    [][\A r \in Slots :
          (Answers(r) /\ IsMutation(reqs'[r]) /\ reqs'[r].changed) =>
              ~fileListCache'[reqs'[r].walletAddress].present]_vars

\* Slot r's handler calls ensureDbConnection in this step.
Calls(r) == Free(r) /\ reqs'[r].pc = "conn"

\* C8: when a connection attempt fails the guard is cleared; every caller
\* that was waiting on the attempt is told false and answers 503; and the
\* first call of ensureDbConnection after the failure starts a fresh
\* connectToDatabase attempt, which it awaits.
C8_FailureClearsGuard ==
    /\ [](\A r \in Slots :
            (reqs[r].awaits # 0 /\ promise[reqs[r].awaits] = "rejected"
                /\ reqs[r].pc # "conn") =>
                /\ reqs[r].connected = "false"
                /\ reqs[r].pc = "done" /\ reqs[r].status = 503)
    /\ [][\A p \in 1..MaxAttempts :
            (promise[p] = "pending" /\ promise'[p] = "rejected") =>
                dbConnectionPromise' = 0]_vars
    /\ [][\A r \in Slots :
            (Calls(r) /\ connectCalls >= 1
                /\ promise[connectCalls] = "rejected") =>
                /\ connectCalls' = connectCalls + 1
                /\ promise'[connectCalls'] = "pending"
                /\ reqs'[r].awaits = connectCalls'
                /\ dbConnectionPromise' = connectCalls']_vars

\* The first attempt failed, its caller answered 503, and the next caller
\* awaits a second attempt.
C8_Witness ==
    /\ promise[1] = "rejected" /\ promise[2] = "pending"
    /\ \E r \in Slots :
          reqs[r].awaits = 1 /\ reqs[r].status = 503 /\ reqs[r].pc = "done"
    /\ \E r \in Slots : reqs[r].awaits = 2 /\ reqs[r].pc = "conn"

\* Slot r takes a proxy request in this step.
ProxyTakes(r) == ProxyFree(r) /\ proxyStarted' = proxyStarted + 1

\* C9 as claimed: every upload-proxy request whose form has no file field is
\* answered 400 and makes no call to the external API.
C9_NoFileIs400 ==
    [][\A r \in Slots :
          (ProxyTakes(r) /\ proxy'[r].form = "nofile") =>
              /\ proxy'[r].pc = "done" /\ proxy'[r].status = 400
              /\ fetchCalls' = fetchCalls]_vars

\* C9 as amended: every upload-proxy request whose form has no file field
\* makes no call to the external API, and is answered 400 when the API key
\* is configured, 500 when it is not.
C9_NoFileNeverFetches ==
    [][\A r \in Slots :
          (ProxyTakes(r) /\ proxy'[r].form = "nofile") =>
              /\ proxy'[r].pc = "done"
              /\ proxy'[r].status = (IF apiKey THEN 400 ELSE 500)
              /\ fetchCalls' = fetchCalls]_vars

\* With the key configured, a request without a file was answered 400 after
\* another request had been forwarded.
C9_Witness ==
    /\ apiKey /\ fetchCalls = 1
    /\ \E r \in Slots :
          proxy[r].pc = "done" /\ proxy[r].form = "nofile"
              /\ proxy[r].status = 400

\* Slot r takes a GET for a wallet in this step.
TakesGet(r) ==
    /\ Free(r) /\ started' = started + 1
    /\ reqs'[r].op = "GET" /\ reqs'[r].walletAddress \in Wallets

\* C10: a GET for wallet w is served from the cache if and only if an entry
\* for w exists and now - timestamp < 30000 ms; otherwise it goes to the
\* database (ensureDbConnection, then the query), and a GET that missed the
\* cache answers 200 only with the list its own query read.
C10_HitIffYoungerThanTtl ==
    /\ [][\A r \in Slots :
            TakesGet(r) =>
                LET e == fileListCache[reqs'[r].walletAddress]
                    young == e.present /\ now - e.timestamp < 30000
                IN  /\ young => /\ reqs'[r].pc = "done"
                                /\ reqs'[r].status = 200
                                /\ reqs'[r].result = e.data
                    /\ ~young => /\ reqs'[r].pc = "conn"
                                 /\ reqs'[r].result = <<>>]_vars
    /\ [](\A r \in Slots :
            (Done(reqs[r], "GET") /\ reqs[r].awaits # 0
                /\ reqs[r].status = 200) =>
                /\ reqs[r].queried
                /\ reqs[r].result = Transform(reqs[r].files))

\* A GET issued when the entry of its wallet is exactly 30000 ms old goes to
\* the database.
C10_Witness ==
    \E r \in Slots :
        /\ reqs[r].op = "GET" /\ reqs[r].pc = "conn"
        /\ reqs[r].issuedAt = CACHE_TTL
        /\ fileListCache[reqs[r].walletAddress].present
        /\ fileListCache[reqs[r].walletAddress].timestamp = 0

\* A create with all its required fields whose size has no integer at its
\* start: its first character is neither a digit, a sign nor white space.
UnparsableCreate(q) ==
    /\ q.op = "POST"
    /\ q.walletAddress \in Wallets /\ q.cid \in Cids
    /\ q.hasName /\ q.hasMime
    /\ q.size # <<>>
    /\ q.size[1] \notin Digits \cup {" ", "+", "-"}

\* C11: a create whose required fields are all present but whose size does
\* not parse as an integer is answered 400 (unless the database fails: 503,
\* 500), and the step in which it is answered 400 is the one that has
\* persisted its FileRecord: the record is in the store, added after the
\* records already there, and every wallet's totalStorageUsed is unchanged.
C11_InvalidSizeRejectedAfterPersist ==
    /\ [](\A r \in Slots :
            (reqs[r].pc = "done" /\ UnparsableCreate(reqs[r])
                /\ reqs[r].status \notin {500, 503}) =>
                reqs[r].status = 400 /\ reqs[r].changed)
    /\ [][\A r \in Slots :
            (Answers(r) /\ UnparsableCreate(reqs'[r])
                /\ reqs'[r].status = 400) =>
                /\ Len(files') = Len(files) + 1
                /\ SubSeq(files', 1, Len(files)) = files
                /\ files'[Len(files')].cid = reqs'[r].cid
                /\ files'[Len(files')].walletAddress = reqs'[r].walletAddress
                /\ files'[Len(files')].size = reqs'[r].size
                /\ users' = users]_vars

\* A create of size "x" by wallet w2 was answered 400: its record is stored
\* and w2 still has no account.
C11_Witness ==
    /\ \E r \in Slots :
          /\ Done(reqs[r], "POST") /\ reqs[r].status = 400
          /\ reqs[r].walletAddress = "w2" /\ reqs[r].size = <<"x">>
    /\ \E i \in 1..Len(files) :
          files[i].walletAddress = "w2" /\ files[i].size = <<"x">>
    /\ users["w2"] = <<>>

\* Slot r takes a POST in this step.
TakesPost(r) ==
    /\ Free(r) /\ started' = started + 1
    /\ reqs'[r].op = "POST"

\* A create whose JSON body lacks one of walletAddress, fileName, cid, size,
\* mimeType (a body that is not JSON gives the handler no field at all, and
\* is answered 500, route.ts:105).
IncompleteCreate(q) ==
    /\ q.op = "POST"
    /\ \/ q.walletAddress = "" \/ ~q.hasName \/ q.cid = ""
       \/ q.size = <<>> \/ ~q.hasMime
    /\ \/ q.walletAddress # "" \/ q.hasName \/ q.cid # ""
       \/ q.size # <<>> \/ q.hasMime

\* C12: a create in which any of walletAddress, fileName, cid, size,
\* mimeType is missing is answered 400 at once, and that step changes
\* nothing: the FileRecords, the accounts, the cache and the connection
\* state (guard, attempts, connectToDatabase calls) are as before.
C12_MissingFieldChangesNothing ==
    [][\A r \in Slots :
          (TakesPost(r) /\ IncompleteCreate(reqs'[r])) =>
              /\ reqs'[r].pc = "done" /\ reqs'[r].status = 400
              /\ files' = files /\ nextId' = nextId /\ users' = users
              /\ fileListCache' = fileListCache
              /\ dbConnectionPromise' = dbConnectionPromise
              /\ promise' = promise /\ connectCalls' = connectCalls]_vars

\* A create without mimeType was answered 400 while the cache held wallet
\* w1's list: the entry is still there, and no connection was attempted
\* after the one the list needed.
C12_Witness ==
    /\ \E r \in Slots :
          /\ Done(reqs[r], "POST") /\ reqs[r].status = 400
          /\ reqs[r].walletAddress = "w1" /\ ~reqs[r].hasMime
          /\ reqs[r].awaits = 0
    /\ fileListCache["w1"].present
    /\ connectCalls = 1

\* No stored FileRecord has this cid and this walletAddress.
NoRecordOf(c, w) ==
    \A i \in 1..Len(files) : files[i].cid # c \/ files[i].walletAddress # w

\* C13: a DELETE whose (cid, walletAddress) matches no FileRecord when it
\* looks the record up is answered 404 (unless the lookup throws: 500), and
\* neither that step nor the steps of the handler before it change the
\* FileRecords, any wallet's account or the cache: a record with the same
\* cid owned by another wallet stays.  A DELETE answered 404 has deleted
\* and decremented nothing.
C13_NoMatchIs404AndChangesNothing ==
    /\ [][\A r \in Slots :
            (reqs[r].op = "DELETE" /\ reqs[r].pc = "findOne"
                /\ reqs'[r].pc # "findOne" /\ ~reqs'[r].threw
                /\ NoRecordOf(reqs[r].cid, reqs[r].walletAddress)) =>
                /\ reqs'[r].pc = "done" /\ reqs'[r].status = 404
                /\ files' = files /\ users' = users
                /\ fileListCache' = fileListCache]_vars
    /\ [][\A r \in Slots :
            (reqs'[r].op = "DELETE" /\ reqs'[r].pc # reqs[r].pc
                /\ reqs'[r].pc \in {"conn", "findOne"}) =>
                /\ files' = files /\ users' = users
                /\ fileListCache' = fileListCache]_vars
    /\ [](\A r \in Slots :
            (Done(reqs[r], "DELETE") /\ reqs[r].status = 404) =>
                /\ ~reqs[r].changed /\ reqs[r].file = <<>>
                /\ reqs[r].acctBefore = <<>> /\ reqs[r].acctAfter = <<>>)

\* Wallet w2's DELETE of c1 was answered 404 while wallet w1 owns a record
\* with that cid: the record, w1's account and w1's cached list are there.
C13_Witness ==
    /\ \E r \in Slots :
          /\ Done(reqs[r], "DELETE") /\ reqs[r].status = 404
          /\ reqs[r].walletAddress = "w2" /\ reqs[r].cid = "c1"
    /\ \E i \in 1..Len(files) :
          files[i].cid = "c1" /\ files[i].walletAddress = "w1"
    /\ users["w1"] = <<12>>
    /\ fileListCache["w1"].present

\* C14: totalStorageUsed has no lower bound.  The decrement of a DELETE
\* takes the size of the record it looked up off the account whatever the
\* account holds, also when that leaves it below zero; two DELETEs of the
\* same record that both looked it up before either removed it take its
\* size off twice (C14_Witness: the counter is negative).
C14_DecrementHasNoFloor ==
    [][\A r \in Slots :
          (reqs[r].op = "DELETE" /\ reqs[r].pc = "dec"
              /\ reqs'[r].pc = "deleteFinish"
              /\ users[reqs[r].walletAddress] # <<>>) =>
              users'[reqs[r].walletAddress] =
                  << users[reqs[r].walletAddress][1]
                         - (IF IsDecimal(reqs[r].file[1].size)
                            THEN Decimal(reqs[r].file[1].size) ELSE 0) >>]_vars

\* Two DELETEs of wallet w1's 12-byte record were both answered 200, no
\* database operation having failed: w1 has no record and its
\* totalStorageUsed is -12.
C14_Witness ==
    /\ \A r \in Slots :
          /\ Done(reqs[r], "DELETE") /\ reqs[r].status = 200
          /\ reqs[r].walletAddress = "w1" /\ reqs[r].cid = "c1"
    /\ ~dbFailed
    /\ users["w1"] # <<>> /\ users["w1"][1] < 0

\* h2 hundredths is 25 * rem / m (that is 100 * rem / unit, m = unit / 4)
\* rounded to the nearest integer, a tie going up:
\* -m/2 < h2 * m - 25 * rem <= m/2.  For m = 2^28 the products leave 32
\* bits, and the comparison is made on rem = a * 2^14 + b.
NearestHundredths(h2, rem, m) ==
    IF m <= 262144
    THEN /\ 2 * (h2 * m - 25 * rem) <= m
         /\ 2 * (h2 * m - 25 * rem) > 0 - m
    ELSE LET a == rem \div 16384
             b == rem % 16384
             x == h2 * (m \div 16384) - 25 * a
             k == (m \div 2) \div 16384
         IN  /\ x - k <= (25 * b) \div 16384
             /\ x + k > (25 * b) \div 16384

\* The formatted size f shows, with two decimals, g whole units and the
\* remainder rem of a unit of 4 * m bytes.
TwoDecimals(f, g, rem, m) ==
    /\ f.whole >= 0 /\ f.frac \in 0..99
    /\ f.whole * 100 + f.frac - 100 * g \in 0..100
    /\ NearestHundredths(f.whole * 100 + f.frac - 100 * g, rem, m)

\* f is the formatted size the claim gives n = hi * 2^20 + lo.
FormatsAsClaimed(f, hi, lo) ==
    IF hi = 0 /\ lo < 1024
    THEN f = [whole |-> lo, frac |-> NoFrac, unit |-> "B"]
    ELSE IF hi = 0
    THEN f.unit = "KB" /\ TwoDecimals(f, lo \div 1024, lo % 1024, 256)
    ELSE IF hi < 1024
    THEN f.unit = "MB" /\ TwoDecimals(f, hi, lo, 262144)
    ELSE /\ f.unit = "GB"
         /\ TwoDecimals(f, hi \div 1024, (hi % 1024) * 1048576 + lo,
                        268435456)

\* The claim's examples: 500 B, 2.00 KB, 5.00 MB, 3.00 GB.
FormatExamples ==
    { << <<"5", "0", "0">>,
         [whole |-> 500, frac |-> NoFrac, unit |-> "B"] >>,
      << <<"2", "0", "4", "8">>,
         [whole |-> 2, frac |-> 0, unit |-> "KB"] >>,
      << <<"5", "2", "4", "2", "8", "8", "0">>,
         [whole |-> 5, frac |-> 0, unit |-> "MB"] >>,
      << <<"3", "2", "2", "1", "2", "2", "5", "4", "7", "2">>,
         [whole |-> 3, frac |-> 0, unit |-> "GB"] >> }

\* C15: in every list a GET answers with, the formattedSize of a record
\* whose stored size parses to a non-negative integer n has unit B for
\* n < 1024, KB for n < 1024^2, MB for n < 1024^3 and GB otherwise, and shows
\* n divided by the unit: n itself for B, the quotient rounded to two
\* decimals for KB, MB, GB; the claim's four examples come out as given.
C15_FormattedSizeByUnit ==
    \A r \in Slots :
        (Done(reqs[r], "GET") /\ reqs[r].status = 200) =>
            \A i \in 1..Len(reqs[r].result) :
                LET rec == reqs[r].result[i]
                    n == ParseWide(rec.size)
                IN  /\ (~n.nan /\ ~n.neg) =>
                          FormatsAsClaimed(rec.formattedSize, n.hi, n.lo)
                    /\ \A e \in FormatExamples :
                          rec.size = e[1] => rec.formattedSize = e[2]

\* A list shows the record of 3221225472 bytes as "3.00 GB".
C15_Witness ==
    \E r \in Slots :
        /\ Done(reqs[r], "GET") /\ reqs[r].status = 200
        /\ Len(reqs[r].result) = 1
        /\ reqs[r].result[1].size = <<"3", "2", "2", "1", "2", "2", "5", "4", "7", "2">>
        /\ reqs[r].result[1].formattedSize =
              [whole |-> 3, frac |-> 0, unit |-> "GB"]

\* C16: in POST, GET (past the cache) and DELETE alike, a handler whose
\* connection attempt failed answers 503 and has read and written nothing
\* in the database; neither the step that answers 503 nor the handler's
\* step before it changes the FileRecords, the accounts or the cache; only
\* a handler told false answers 503; and a handler into which a database
\* operation threw had been told the connection is established and answers
\* 500.
C16_Unavailable503Failure500 ==
    /\ [](\A r \in Slots :
            reqs[r].connected = "false" =>
                /\ reqs[r].pc = "done" /\ reqs[r].status = 503
                /\ ~reqs[r].queried /\ ~reqs[r].changed /\ ~reqs[r].threw
                /\ reqs[r].file = <<>> /\ reqs[r].files = <<>>
                /\ reqs[r].userUpdate = <<>>
                /\ reqs[r].acctBefore = <<>> /\ reqs[r].acctAfter = <<>>)
    /\ [][\A r \in Slots :
            (reqs'[r].pc # reqs[r].pc
                /\ (reqs'[r].pc = "conn" \/ reqs'[r].connected = "false")) =>
                /\ files' = files /\ nextId' = nextId /\ users' = users
                /\ fileListCache' = fileListCache]_vars
    /\ [](\A r \in Slots :
            /\ reqs[r].status = 503 => reqs[r].connected = "false"
            /\ reqs[r].threw =>
                  /\ reqs[r].connected = "true"
                  /\ reqs[r].pc = "done" /\ reqs[r].status = 500)

\* A DELETE was answered 503 after its connection attempt failed, and a
\* POST was answered 500 when, connected by a later attempt, its upsert threw
\* after its record had been created.
C16_Witness ==
    /\ \E r \in Slots :
          /\ Done(reqs[r], "DELETE") /\ reqs[r].status = 503
          /\ reqs[r].connected = "false"
    /\ \E r \in Slots :
          /\ Done(reqs[r], "POST") /\ reqs[r].status = 500
          /\ reqs[r].threw /\ reqs[r].changed /\ reqs[r].connected = "true"

\* C17: the cache entry of a wallet v changes only in a step in which a
\* handler for v itself answers 200: a create or delete for v, which
\* removes the entry, or a list for v, which stores the list it returns.
\* The entries (data and timestamp) of all other wallets are as before.
C17_CacheChangesAreOwnWallet ==
    [][\A v \in Wallets :
          fileListCache'[v] # fileListCache[v] =>
              \E r \in Slots :
                  /\ Answers(r) /\ reqs'[r].status = 200
                  /\ reqs'[r].walletAddress = v
                  /\ IF IsMutation(reqs'[r])
                     THEN fileListCache'[v] = NoEntry
                     ELSE /\ reqs'[r].op = "GET"
                          /\ fileListCache'[v].present
                          /\ fileListCache'[v].data = reqs'[r].result
                          /\ fileListCache'[v].timestamp = now
                  /\ \A u \in Wallets \ {v} :
                        fileListCache'[u] = fileListCache[u]]_vars

\* Wallet w2's list was cached and a create for w2 then removed it (the
\* entry is gone though the GET that stored it was answered); the entry
\* wallet w1's list had stored before is still there, as stored.
C17_Witness ==
    /\ \E r \in Slots :
          /\ Done(reqs[r], "GET") /\ reqs[r].status = 200 /\ reqs[r].queried
          /\ reqs[r].walletAddress = "w2"
    /\ \E r \in Slots :
          /\ Done(reqs[r], "POST") /\ reqs[r].status = 200
          /\ reqs[r].walletAddress = "w2"
    /\ ~fileListCache["w2"].present
    /\ fileListCache["w1"].present
    /\ Len(fileListCache["w1"].data) = 1

\* No handler is in flight.
Quiescent == \A r \in Slots : reqs[r].pc \in {"idle", "done"}

\* The sum of the parsed sizes of wallet w's records among fs.
RECURSIVE StoredSum(_, _)
StoredSum(fs, w) ==
    IF fs = <<>> THEN 0
    ELSE (IF Head(fs).walletAddress = w /\ IsDecimal(Head(fs).size)
          THEN Decimal(Head(fs).size) ELSE 0) + StoredSum(Tail(fs), w)

\* C18: when no database operation has failed and every created size was a
\* valid integer, then whenever no request is in flight each wallet's
\* totalStorageUsed (0 for a wallet without account) is the sum of the
\* parsed sizes of the FileRecords stored for it.
C18_AccountingConsistent ==
    (Quiescent /\ ~dbFailed /\ ~invalidCreated) =>
        \A w \in Wallets : Total(users[w]) = StoredSum(files, w)

\* The connectToDatabase attempts that have not settled.
InFlight == {p \in 1..MaxAttempts : promise[p] = "pending"}

\* C19: at every moment at most one connectToDatabase attempt is in flight,
\* and the catch block of a caller whose awaited attempt failed never
\* clears a guard that holds a newer attempt still pending.
C19_OneAttemptInFlight ==
    /\ [](Cardinality(InFlight) <= 1)
    /\ [][\A r \in Slots :
            (reqs[r].pc = "conn" /\ reqs'[r].connected = "false") =>
                ~(/\ dbConnectionPromise # 0
                  /\ promise[dbConnectionPromise] = "pending"
                  /\ dbConnectionPromise' = 0)]_vars

\* Some connection attempt has succeeded.
Connected == \E p \in 1..MaxAttempts : promise[p] = "fulfilled"

\* C20: once a connection attempt has succeeded no step clears the guard,
\* connectToDatabase is not invoked any more, and every later call of
\* ensureDbConnection awaits a fulfilled promise, so that it returns true.
C20_ConnectedForGood ==
    /\ [][Connected =>
            (dbConnectionPromise # 0 => dbConnectionPromise' # 0)]_vars
    /\ [][Connected => connectCalls' = connectCalls]_vars
    /\ [][\A r \in Slots :
            (Connected /\ Calls(r)) =>
                promise[reqs'[r].awaits] = "fulfilled"]_vars

=============================================================================
